---- MODULE Spec2Model ----
(***************************************************************************)
(* The LLM provider layer of the repository: the two vendor adapters of    *)
(* src/app/llm/providers.py (OpenAIProvider, AnthropicProvider), the       *)
(* LLMManager of src/app/llm/manager.py (registry, selection policy,       *)
(* chat_completion) and the chat tool of src/app/mcp_server.py that calls  *)
(* it.  The vendor is the environment.  Spec has one request in flight at  *)
(* a time, SpecRuns repeats calls on one registry, SpecConcurrent keeps    *)
(* several calls suspended together.  Wall-clock timing (execution_time)   *)
(* is not modelled.                                                        *)
(***************************************************************************)
EXTENDS Integers, Sequences, FiniteSets, TLC

VARIABLES
    settings,      \* app.config.settings: the two API keys
    ctor_fails,    \* vendors whose client construction raises (environment)
    resolutions,   \* the (provider, model) pairs that earlier calls without either resolved to
    inflight,      \* the calls of chat_completion that run concurrently, each with its own frame
    providers,     \* LLMManager.providers: dict, as its items in insertion order
    pc,            \* where the request in flight stands
    args,          \* the arguments of the call in flight
    locals,        \* provider_name, model, messages as chat_completion resolved them
    vendor_calls,  \* the vendor requests issued for the call in flight, in order
    result,        \* what the caller of the call in flight has received
    vendor_stream, \* the vendor's stream: its connection, the chunks delivered and those to come
    fragments,     \* the fragments the consumer of a stream has received, in order
    vendor_error,  \* the exception the vendor client raised into the adapter, if any
    tool,          \* the MCP tool call in flight: its name and arguments
    tool_result,   \* the CallToolResult the MCP client has received
    usage_rows     \* the APIUsage rows the tool call in flight has committed

vars == <<settings, ctor_fails, resolutions, inflight, providers, pc, args, locals, vendor_calls, result, vendor_stream, fragments, vendor_error, tool, tool_result, usage_rows>>

tool_vars == <<tool, tool_result, usage_rows>>

----------------------------------------------------------------------------
(* Bounds of the model *)

\* longest conversation_history passed to chat_completion
MaxHistory == 2
\* largest token count a vendor reply reports
MaxTokens == 1
\* most chunks a vendor stream delivers
MaxChunks == 2
\* most calls of chat_completion whose resolution is compared
MaxRuns == 2
\* most calls of chat_completion in flight at the same time
MaxRequests == 2

----------------------------------------------------------------------------
(* Python values *)

\* Python's None, where the other values of the field are strings
None == "<None>"

\* truth value of an Optional[str]: None and "" are falsy
Truthy(s) == s # None /\ s # ""

\* anthropic.NOT_GIVEN, the marker of an omitted keyword, against a given string
NOT_GIVEN == [given |-> FALSE, value |-> ""]
Given(s) == [given |-> TRUE, value |-> s]

ValueError(m) == [cls |-> "ValueError", msg |-> m]

\* an Optional[List]: absent (None) or a list
NoList == [some |-> FALSE, items |-> <<>>]
SomeList(l) == [some |-> TRUE, items |-> l]

Message(r, c) == [role |-> r, content |-> c]

----------------------------------------------------------------------------
(* Inputs the environment draws from *)

ApiKeys == {None, "sk-key"}
VendorNames == {"openai", "anthropic"}
ProviderArgs == {None, "openai", "anthropic", "unknown"}
ModelArgs == {None, "gpt-4", "my-model"}
UserMessages == {"", "U"}
SystemPrompts == {None, "", "S"}
HistoryMessages ==
    { Message("system", ""), Message("system", "A"),
      Message("user", "B"), Message("assistant", "C") }

RECURSIVE SeqsUpTo(_, _)
SeqsUpTo(S, n) ==
    IF n = 0 THEN { <<>> }
    ELSE LET shorter == SeqsUpTo(S, n - 1)
         IN shorter \cup { Append(s, x) : s \in shorter, x \in S }

Histories == {NoList} \cup { SomeList(h) : h \in SeqsUpTo(HistoryMessages, MaxHistory) }

Tokens == 0 .. MaxTokens

\* what a failing vendor call raises: auth failure, rate limit, invalid model, network
VendorErrors ==
    { [cls |-> "AuthenticationError", msg |-> "invalid api key"],
      [cls |-> "RateLimitError", msg |-> "rate limit exceeded"],
      [cls |-> "NotFoundError", msg |-> "model not found"],
      [cls |-> "APIConnectionError", msg |-> "connection error"] }

\* task types asked of get_recommended_model: the four of its table and another
TaskTypes == {"general", "complex", "fast", "creative", "unknown-task"}

\* what breaks a stream that is already open
StreamBreaks == { e \in VendorErrors : e.cls = "APIConnectionError" }

\* the pieces of text a vendor generates; streamed, they come one by one
VendorChunks == {"", "a", "b"}

\* what a vendor generates for a request: a sequence of pieces
VendorGenerations == SeqsUpTo(VendorChunks, MaxChunks)

RECURSIVE Concat(_)
Concat(pieces) ==
    IF pieces = << >> THEN "" ELSE Head(pieces) \o Concat(Tail(pieces))

\* the text of the reply that is not streamed: the whole generation
VendorText(generation) == Concat(generation)

\* the texts of the replies that are not streamed: the empty generation and one
\* of two pieces
VendorTexts == { VendorText(g) : g \in {<< >>, <<"a", "b">>} }

----------------------------------------------------------------------------
(* src/app/llm/providers.py: OpenAIProvider *)

\* the keyword arguments of client.chat.completions.create; no caller of this
\* repository passes extra **kwargs
OpenAICreate(messages, model, stream) ==
    [client |-> "openai", api |-> "chat.completions.create",
     model |-> model, messages |-> messages, stream |-> stream]

\* a variant that keeps the model of a call in the adapter object and reports
\* the one the adapter holds when the response is there
OpenAIResult_ModelOfAdapter(response) ==
    [content |-> response.content,
     usage |-> [prompt_tokens |-> response.usage.prompt_tokens,
                completion_tokens |-> response.usage.completion_tokens,
                total_tokens |-> response.usage.total_tokens],
     model |-> LET mine == SelectSeq(vendor_calls, LAMBDA c : c.client = "openai")
               IN IF mine = << >> THEN response.model ELSE mine[Len(mine)].model,
     provider |-> "openai"]

\* the dict generate_response builds from the vendor's response
OpenAIResult(response) ==
    [content |-> response.content,
     usage |-> [prompt_tokens |-> response.usage.prompt_tokens,
                completion_tokens |-> response.usage.completion_tokens,
                total_tokens |-> response.usage.total_tokens],
     model |-> response.model,
     provider |-> "openai"]

\* a variant that wraps the vendor's exception in one of its own
OpenAIGenerateExcept_Wraps(e) == [cls |-> "RuntimeError", msg |-> e.msg]

\* except Exception as e: logger.error(...); raise
OpenAIGenerateExcept(e) == e

\* except Exception as e: logger.error(...); raise, in stream_response
OpenAIStreamExcept(e) == e

\* a variant that also skips the chunks of a single character
OpenAIYields_SkipsShort(chunk) == Len(chunk) > 1

\* if chunk.choices[0].delta.content: a chunk without text is not yielded
OpenAIYields(chunk) == chunk # ""

OpenAIModels == <<"gpt-4", "gpt-4-turbo", "gpt-3.5-turbo", "gpt-3.5-turbo-16k">>

\* what the OpenAI API can answer to a request
OpenAIResponses(request) ==
    { [content |-> t, model |-> request.model,
       usage |-> [prompt_tokens |-> p, completion_tokens |-> c, total_tokens |-> tot]] :
        t \in VendorTexts, p \in Tokens, c \in Tokens, tot \in 0 .. 2 * MaxTokens }

----------------------------------------------------------------------------
(* src/app/llm/providers.py: AnthropicProvider *)

\* kwargs.get("max_tokens", 1000)
DefaultMaxTokens == 1000

\* the loop "for msg in messages" that splits the system message off
RECURSIVE ConvertLoop(_, _, _)
ConvertLoop(messages, system_message, anthropic_messages) ==
    IF messages = <<>>
    THEN [system_message |-> system_message, anthropic_messages |-> anthropic_messages]
    ELSE LET msg == Head(messages)
         IN IF msg.role = "system"
            THEN ConvertLoop(Tail(messages), msg.content, anthropic_messages)
            ELSE ConvertLoop(Tail(messages), system_message,
                             Append(anthropic_messages,
                                    [role |-> msg.role, content |-> msg.content]))

\* a variant whose loop keeps the first system message instead of the last
ConvertMessages_FirstSystemWins(messages) ==
    LET conv == ConvertLoop(messages, "", <<>>)
        systems == SelectSeq(messages, LAMBDA m : m.role = "system")
    IN IF systems = << >> THEN conv
       ELSE [conv EXCEPT !.system_message = systems[1].content]

\* system_message = ""; anthropic_messages = []; the loop
ConvertMessages(messages) == ConvertLoop(messages, "", <<>>)

\* a variant that passes system_message whatever it holds
SystemArgument_AlwaysGiven(system_message) == Given(system_message)

\* system=system_message if system_message else anthropic.NOT_GIVEN
SystemArgument(system_message) ==
    IF system_message # "" THEN Given(system_message) ELSE NOT_GIVEN

\* the keyword arguments of client.messages.create in generate_response
AnthropicCreate(messages, model) ==
    LET conv == ConvertMessages(messages)
    IN [client |-> "anthropic", api |-> "messages.create",
        model |-> model, messages |-> conv.anthropic_messages,
        system |-> SystemArgument(conv.system_message),
        max_tokens |-> DefaultMaxTokens]

\* the keyword arguments of client.messages.stream in stream_response
AnthropicStream(messages, model) ==
    LET conv == ConvertMessages(messages)
    IN [client |-> "anthropic", api |-> "messages.stream",
        model |-> model, messages |-> conv.anthropic_messages,
        system |-> SystemArgument(conv.system_message),
        max_tokens |-> DefaultMaxTokens]

\* the dict generate_response builds from the vendor's response
AnthropicResult(response) ==
    [content |-> response.text,
     usage |-> [prompt_tokens |-> response.usage.input_tokens,
                completion_tokens |-> response.usage.output_tokens,
                total_tokens |-> response.usage.input_tokens + response.usage.output_tokens],
     model |-> response.model,
     provider |-> "anthropic"]

\* except Exception as e: logger.error(...); raise
AnthropicGenerateExcept(e) == e

\* except Exception as e: logger.error(...); raise, in stream_response
AnthropicStreamExcept(e) == e

\* async for text in stream.text_stream: yield text
AnthropicYields(text) == TRUE

AnthropicModels ==
    <<"claude-3-opus-20240229", "claude-3-sonnet-20240229", "claude-3-haiku-20240307">>

\* what the Anthropic API can answer to a request
AnthropicResponses(request) ==
    { [text |-> t, model |-> request.model,
       usage |-> [input_tokens |-> p, output_tokens |-> c]] :
        t \in VendorTexts, p \in Tokens, c \in Tokens }

----------------------------------------------------------------------------
(* src/app/config.py and src/app/llm/manager.py: the registry *)

validate_llm_apis ==
    [openai |-> Truthy(settings.openai_api_key),
     anthropic |-> Truthy(settings.anthropic_api_key)]

\* a variant without the try/except around the OpenAI constructor: its
\* exception ends initialize_providers before the Anthropic block
initialize_providers_FirstFailureAborts ==
    IF "openai" \in ctor_fails THEN << >>
    ELSE (IF Truthy(settings.openai_api_key)
          THEN << [name |-> "openai", adapter |-> "OpenAIProvider"] >> ELSE << >>)
         \o (IF Truthy(settings.anthropic_api_key) /\ "anthropic" \notin ctor_fails
             THEN << [name |-> "anthropic", adapter |-> "AnthropicProvider"] >>
             ELSE << >>)

\* LLMManager.initialize_providers: the dict it leaves in self.providers; a
\* constructor that raises is logged and leaves the key out
initialize_providers ==
    LET available_apis == validate_llm_apis
        openai == IF available_apis.openai /\ Truthy(settings.openai_api_key)
                     /\ "openai" \notin ctor_fails
                  THEN << [name |-> "openai", adapter |-> "OpenAIProvider"] >>
                  ELSE << >>
        anthropic == IF available_apis.anthropic /\ Truthy(settings.anthropic_api_key)
                        /\ "anthropic" \notin ctor_fails
                     THEN << [name |-> "anthropic", adapter |-> "AnthropicProvider"] >>
                     ELSE << >>
    IN openai \o anthropic

\* list(self.providers.keys())
get_available_providers == [i \in 1 .. Len(providers) |-> providers[i].name]

\* self.providers.get(provider_name): the adapter, or None
get_provider(provider_name) ==
    IF \E i \in 1 .. Len(providers) : providers[i].name = provider_name
    THEN (CHOOSE e \in { providers[i] : i \in 1 .. Len(providers) } :
              e.name = provider_name).adapter
    ELSE None

\* get_available_models() of an adapter that is neither of the two vendors':
\* BaseLLMProvider leaves the list to the subclass
StubModels(adapter) ==
    IF adapter = "StubProvider" THEN <<"stub-large", "stub-small">> ELSE << >>

\* provider.get_available_models() of an adapter object
AdapterModels(adapter) ==
    IF adapter = "OpenAIProvider" THEN OpenAIModels
    ELSE IF adapter = "AnthropicProvider" THEN AnthropicModels
    ELSE StubModels(adapter)

\* a variant that returns the name registered last
get_default_provider_Last ==
    LET names == get_available_providers
    IN IF names # << >> THEN names[Len(names)] ELSE None

\* providers[0] if providers else None
get_default_provider ==
    LET names == get_available_providers
    IN IF names # << >> THEN names[1] ELSE None

InSeq(x, s) == \E i \in 1 .. Len(s) : s[i] = x

\* a variant of the table that recommends the first model of each list throughout
recommendations_FirstModel ==
    [openai |-> [general |-> "gpt-4", complex |-> "gpt-4",
                 fast |-> "gpt-4", creative |-> "gpt-4"],
     anthropic |-> [general |-> "claude-3-opus-20240229",
                    complex |-> "claude-3-opus-20240229",
                    fast |-> "claude-3-opus-20240229",
                    creative |-> "claude-3-opus-20240229"]]

\* the recommendations table of get_recommended_model
recommendations ==
    [openai |-> [general |-> "gpt-3.5-turbo", complex |-> "gpt-4",
                 fast |-> "gpt-3.5-turbo", creative |-> "gpt-4"],
     anthropic |-> [general |-> "claude-3-sonnet-20240229",
                    complex |-> "claude-3-opus-20240229",
                    fast |-> "claude-3-haiku-20240307",
                    creative |-> "claude-3-opus-20240229"]]

\* a variant that returns the table's entry without looking it up in the list
get_recommended_model_Unchecked(provider_name, task_type) ==
    LET provider == get_provider(provider_name)
    IN IF provider = None THEN None
       ELSE LET models == AdapterModels(provider)
            IN IF models = << >> THEN None
               ELSE IF provider_name \in DOMAIN recommendations
                       /\ task_type \in DOMAIN recommendations[provider_name]
                    THEN recommendations[provider_name][task_type]
                    ELSE models[1]

\* a variant whose fallback is the last model of the provider's list
get_recommended_model_LastModel(provider_name, task_type) ==
    LET provider == get_provider(provider_name)
    IN IF provider = None THEN None
       ELSE LET models == AdapterModels(provider)
            IN IF models = << >> THEN None
               ELSE LET recommended ==
                            IF provider_name \in DOMAIN recommendations
                               /\ task_type \in DOMAIN recommendations[provider_name]
                            THEN recommendations[provider_name][task_type]
                            ELSE models[Len(models)]
                    IN IF InSeq(recommended, models) THEN recommended
                       ELSE models[Len(models)]

\* LLMManager.get_recommended_model
get_recommended_model(provider_name, task_type) ==
    LET provider == get_provider(provider_name)
    IN IF provider = None THEN None
       ELSE LET models == AdapterModels(provider)
            IN IF models = << >> THEN None
               ELSE LET recommended ==
                            IF provider_name \in DOMAIN recommendations
                               /\ task_type \in DOMAIN recommendations[provider_name]
                            THEN recommendations[provider_name][task_type]
                            ELSE models[1]
                    IN IF InSeq(recommended, models) THEN recommended ELSE models[1]

\* get_available_models: the dict of model lists, as its items in order; of the
\* named provider alone when a name is given
get_available_models(provider_name) ==
    IF Truthy(provider_name)
    THEN LET provider == get_provider(provider_name)
         IN IF provider # None
            THEN << [name |-> provider_name, models |-> AdapterModels(provider)] >>
            ELSE << >>
    ELSE [i \in 1 .. Len(providers) |->
             [name |-> providers[i].name,
              models |-> AdapterModels(providers[i].adapter)]]

----------------------------------------------------------------------------
(* src/app/llm/manager.py: chat_completion *)

NoProvidersMessage == "No LLM providers are available"
NoModelsMessage(provider_name) ==
    "No models available for provider '" \o provider_name \o "'"
NotAvailableMessage(provider_name) ==
    "Provider '" \o provider_name \o "' not available"

\* a variant that takes the registered providers in turn, call after call
SelectProvider_TakesTurns(provider_name) ==
    IF Truthy(provider_name) THEN provider_name
    ELSE IF providers = << >> THEN None
    ELSE providers[(Len(resolutions) % Len(providers)) + 1].name

\* a variant that falls back to a fixed name instead of asking the registry
SelectProvider_FixedDefault(provider_name) ==
    IF ~Truthy(provider_name) THEN "openai" ELSE provider_name

\* provider_name after "Auto-select provider if not specified"
SelectProvider(provider_name) ==
    IF ~Truthy(provider_name) THEN get_default_provider ELSE provider_name

\* a variant that keeps the caller's model only when the provider lists it
SelectModel_OnlyListed(provider_name, model) ==
    LET provider == get_provider(provider_name)
    IN IF Truthy(model) /\ (provider = None \/ InSeq(model, AdapterModels(provider)))
       THEN model
       ELSE get_recommended_model(provider_name, "general")

\* a variant that goes on with a placeholder when no model is recommended
SelectModel_Placeholder(provider_name, model) ==
    IF Truthy(model) THEN model
    ELSE LET recommended == get_recommended_model(provider_name, "general")
         IN IF recommended = None THEN "default" ELSE recommended

\* model after "Auto-select model if not specified"
SelectModel(provider_name, model) ==
    IF ~Truthy(model) THEN get_recommended_model(provider_name, "general") ELSE model

\* a variant that extends with the history before it appends the system prompt
BuildMessages_HistoryFirst(user_message, conversation_history, system_prompt) ==
    LET system == IF Truthy(system_prompt)
                  THEN << Message("system", system_prompt) >> ELSE << >>
        history == IF conversation_history.some /\ conversation_history.items # << >>
                   THEN conversation_history.items ELSE << >>
    IN history \o system \o << Message("user", user_message) >>

\* "Build messages list": system prompt, history, the current user message
BuildMessages(user_message, conversation_history, system_prompt) ==
    LET system == IF Truthy(system_prompt)
                  THEN << Message("system", system_prompt) >> ELSE << >>
        history == IF conversation_history.some /\ conversation_history.items # << >>
                   THEN conversation_history.items ELSE << >>
    IN system \o history \o << Message("user", user_message) >>

\* the two list objects of "Build messages list" after its statements have run:
\* "fresh" is the list made by 'messages = []', "passed" the list the caller
\* passed as conversation_history; append and extend change the list that
\* 'messages' is bound to, and extend reads the caller's
ListObjects(messages, user_message, conversation_history, system_prompt) ==
    LET o0 == [fresh |-> << >>, passed |-> conversation_history.items]
        o1 == IF Truthy(system_prompt)
              THEN [o0 EXCEPT ![messages] = Append(@, Message("system", system_prompt))]
              ELSE o0
        o2 == IF conversation_history.some /\ conversation_history.items # << >>
              THEN [o1 EXCEPT ![messages] = @ \o o1["passed"]]
              ELSE o1
    IN [o2 EXCEPT ![messages] = Append(@, Message("user", user_message))]

\* a variant in which 'messages' is bound to the caller's list
CallerHistoryAfter_SharedList(user_message, conversation_history, system_prompt) ==
    [conversation_history EXCEPT
        !.items = ListObjects("passed", user_message, conversation_history,
                              system_prompt)["passed"]]

\* the caller's conversation_history once the message list is built
CallerHistoryAfter(user_message, conversation_history, system_prompt) ==
    [conversation_history EXCEPT
        !.items = ListObjects("fresh", user_message, conversation_history,
                              system_prompt)["passed"]]

NoLocals ==
    [provider_name |-> None, model |-> None, messages |-> << >>,
     conversation_history |-> NoList]
NoArgs == [op |-> "none"]
Pending == [kind |-> "pending"]

\* an exception leaves the call and reaches its caller
Raise(e) ==
    /\ pc' = "done"
    /\ result' = [kind |-> "error", error |-> e]
    /\ UNCHANGED vendor_calls

\* generate_response(messages, model) of an adapter that is neither of the two
\* vendors': the call as the manager hands it over
StubCreate(messages, model) ==
    [client |-> "stub", api |-> "generate_response", model |-> model,
     messages |-> messages]

\* the adapter's generate_response up to its await of the vendor call
AdapterGenerate(adapter, messages, model) ==
    /\ vendor_calls' = Append(vendor_calls,
            IF adapter = "OpenAIProvider" THEN OpenAICreate(messages, model, FALSE)
            ELSE IF adapter = "AnthropicProvider" THEN AnthropicCreate(messages, model)
            ELSE StubCreate(messages, model))
    /\ pc' = "await_vendor"
    /\ UNCHANGED result

\* LLMManager.generate_response
generate_response(provider_name, messages, model) ==
    LET provider == get_provider(provider_name)
    IN IF provider = None
       THEN Raise(ValueError(NotAvailableMessage(provider_name)))
       ELSE AdapterGenerate(provider, messages, model)

\* calling the async generator function LLMManager.stream_response runs none of
\* its body: the caller receives the generator object
ReturnGenerator ==
    /\ pc' = "generator"
    /\ result' = [kind |-> "generator"]
    /\ UNCHANGED vendor_calls

chat_completion(user_message, provider_name, model, conversation_history, system_prompt, stream) ==
    LET p == SelectProvider(provider_name)
    IN IF ~Truthy(p)
       THEN /\ Raise(ValueError(NoProvidersMessage))
            /\ locals' = [NoLocals EXCEPT !.conversation_history = conversation_history]
       ELSE LET m == SelectModel(p, model)
            IN IF ~Truthy(m)
               THEN /\ Raise(ValueError(NoModelsMessage(p)))
                    /\ locals' = [NoLocals EXCEPT
                                      !.provider_name = p,
                                      !.conversation_history = conversation_history]
               ELSE LET messages == BuildMessages(user_message, conversation_history,
                                                  system_prompt)
                    IN /\ locals' = [provider_name |-> p, model |-> m,
                                     messages |-> messages,
                                     conversation_history |->
                                         CallerHistoryAfter(user_message,
                                                            conversation_history,
                                                            system_prompt)]
                       /\ IF stream THEN ReturnGenerator
                          ELSE generate_response(p, messages, m)

----------------------------------------------------------------------------
(* src/app/mcp_server.py: the tool chat_with_llm *)

ToolMessages == {None, "", "U"}
UserIds == {None, "1"}

MessageRequired == "Message is required"

\* the tools call_tool dispatches to, and the names a client may send besides
\* chat_with_llm
ToolNames == {"execute_sql", "chat_with_llm", "sql_with_llm", "analyze_data"}
ToolNameArgs == (ToolNames \ {"chat_with_llm"}) \cup {"no_such_tool"}

\* the checks of the required arguments in _execute_sql, _sql_with_llm and
\* _analyze_data
RequiredMessage(name) ==
    IF name = "execute_sql" THEN "Query is required"
    ELSE IF name = "sql_with_llm" THEN "Natural language query is required"
    ELSE "Both query and analysis_request are required"

\* the else branch of call_tool's dispatch
UnknownTool(name) == ValueError("Unknown tool: " \o name)

\* what leaves one of these tools as an exception: a required argument is
\* missing, the database refuses the query, or, in the two tools that call
\* chat_completion, the manager has no provider
ToolFailures(name) ==
    { ValueError(RequiredMessage(name)),
      [cls |-> "OperationalError", msg |-> "connection refused"] }
    \cup IF name \in {"sql_with_llm", "analyze_data"}
         THEN { ValueError(NoProvidersMessage) } ELSE {}

\* a variant of the except clause that lets the exception go on to the caller
ToolError_Raises(name, e) == [raised |-> e]

\* call_tool's except clause: the error result, with str(e) in its text
ToolError(name, e) ==
    [isError |-> TRUE, text |-> "Error executing tool '" \o name \o "': " \o e.msg]

\* _log_llm_usage: the row is added unless the database operation raises,
\* which is logged and goes no further
_log_llm_usage(user_id, response, committed) ==
    IF committed
    THEN Append(usage_rows,
                [user_id |-> user_id, provider |-> response.provider,
                 model |-> response.model,
                 tokens_input |-> response.usage.prompt_tokens,
                 tokens_output |-> response.usage.completion_tokens])
    ELSE usage_rows

----------------------------------------------------------------------------
(* The state machine *)

NoError == [cls |-> "", msg |-> ""]
NoTool == [name |-> "none"]
NoStream == [conn |-> "none", delivered |-> << >>, chunks |-> << >>]

\* the concurrent callers, and the frame of one that has not called yet
Requests == 1 .. MaxRequests
NoRequest ==
    [pc |-> "idle", args |-> NoArgs, locals |-> NoLocals, vendor_call |-> NoArgs,
     reply |-> Pending, result |-> Pending]

Init ==
    /\ settings \in [openai_api_key : ApiKeys, anthropic_api_key : ApiKeys]
    /\ ctor_fails \in SUBSET VendorNames
    /\ \A v \in ctor_fails :
          Truthy(IF v = "openai" THEN settings.openai_api_key
                 ELSE settings.anthropic_api_key)
    /\ providers = << >>
    /\ resolutions = << >>
    /\ inflight = [r \in Requests |-> NoRequest]
    /\ pc = "boot"
    /\ args = NoArgs
    /\ locals = NoLocals
    /\ vendor_calls = << >>
    /\ result = Pending
    /\ vendor_stream = NoStream
    /\ fragments = << >>
    /\ vendor_error = NoError
    /\ tool = NoTool
    /\ tool_result = Pending
    /\ usage_rows = << >>

\* llm_manager = LLMManager(): __init__ runs initialize_providers
Boot ==
    /\ pc = "boot"
    /\ providers' = initialize_providers
    /\ pc' = "idle"
    /\ UNCHANGED <<settings, ctor_fails, resolutions, inflight, args, locals, vendor_calls, result, vendor_stream, fragments, vendor_error>>
    /\ UNCHANGED tool_vars

\* a caller awaits llm_manager.chat_completion(...)
CallChatCompletion ==
    /\ pc = "idle"
    /\ UNCHANGED tool_vars
    /\ \E user_message \in UserMessages, provider_name \in ProviderArgs,
          model \in ModelArgs, conversation_history \in Histories,
          system_prompt \in SystemPrompts, st \in BOOLEAN :
          /\ args' = [op |-> "chat_completion", user_message |-> user_message,
                      provider_name |-> provider_name, model |-> model,
                      conversation_history |-> conversation_history,
                      system_prompt |-> system_prompt, stream |-> st]
          /\ chat_completion(user_message, provider_name, model,
                             conversation_history, system_prompt, st)
    /\ UNCHANGED <<settings, ctor_fails, resolutions, inflight, providers, vendor_stream, fragments, vendor_error>>
    /\ UNCHANGED tool_vars

\* the vendor answers the adapter's awaited create call; generate_response
\* builds its dict and returns it up to the caller
VendorReturns ==
    /\ pc = "await_vendor"
    /\ LET request == vendor_calls[Len(vendor_calls)]
       IN IF request.client = "openai"
          THEN \E response \in OpenAIResponses(request) :
                  result' = [kind |-> "value", value |-> OpenAIResult(response)]
          ELSE \E response \in AnthropicResponses(request) :
                  result' = [kind |-> "value", value |-> AnthropicResult(response)]
    /\ pc' = "done"
    /\ UNCHANGED <<settings, ctor_fails, resolutions, inflight, providers, args, locals, vendor_calls, vendor_stream, fragments, vendor_error>>
    /\ UNCHANGED tool_vars

\* a variant in which the manager takes the provider whose call failed out of
\* its registry
VendorRaises_DropsProvider ==
    /\ pc = "await_vendor"
    /\ LET request == vendor_calls[Len(vendor_calls)]
       IN /\ \E e \in VendorErrors :
                /\ vendor_error' = e
                /\ result' = [kind |-> "error", error |-> e]
          /\ providers' = SelectSeq(providers, LAMBDA p : p.name # request.client)
    /\ pc' = "done"
    /\ UNCHANGED <<settings, ctor_fails, resolutions, inflight, args, locals, vendor_calls, vendor_stream, fragments>>
    /\ UNCHANGED tool_vars

\* the awaited create call raises; the adapter's except clause runs and the
\* exception leaves LLMManager.generate_response and chat_completion uncaught
VendorRaises ==
    /\ pc = "await_vendor"
    /\ LET request == vendor_calls[Len(vendor_calls)]
       IN \E e \in VendorErrors :
             /\ vendor_error' = e
             /\ result' = [kind |-> "error",
                           error |-> IF request.client = "openai"
                                     THEN OpenAIGenerateExcept(e)
                                     ELSE AnthropicGenerateExcept(e)]
    /\ pc' = "done"
    /\ UNCHANGED <<settings, ctor_fails, resolutions, inflight, providers, args, locals, vendor_calls, vendor_stream, fragments>>
    /\ UNCHANGED tool_vars

\* the caller is done with the outcome; the next request may start
Finish ==
    /\ \/ pc \in {"done", "abandoned", "finalized"} /\ tool = NoTool
       \/ pc = "tool_done"
    /\ pc' = "idle"
    /\ args' = NoArgs
    /\ locals' = NoLocals
    /\ vendor_calls' = << >>
    /\ result' = Pending
    /\ vendor_stream' = NoStream
    /\ fragments' = << >>
    /\ vendor_error' = NoError
    /\ tool' = NoTool
    /\ tool_result' = Pending
    /\ usage_rows' = << >>
    /\ UNCHANGED <<settings, ctor_fails, resolutions, inflight, providers>>

\* the consumer asks the generator for its first fragment: the body of
\* LLMManager.stream_response runs, and the adapter's stream_response up to its
\* await of the vendor call
StartStream ==
    /\ pc = "generator"
    /\ LET provider == get_provider(locals.provider_name)
       IN IF provider = None
          THEN Raise(ValueError(NotAvailableMessage(locals.provider_name)))
          ELSE /\ vendor_calls' = Append(vendor_calls,
                      IF provider = "OpenAIProvider"
                      THEN OpenAICreate(locals.messages, locals.model, TRUE)
                      ELSE AnthropicStream(locals.messages, locals.model))
               /\ pc' = "await_stream"
               /\ UNCHANGED result
    /\ UNCHANGED <<settings, ctor_fails, resolutions, inflight, providers, args, locals, vendor_stream, fragments, vendor_error>>
    /\ UNCHANGED tool_vars

\* the vendor accepts the streaming call: the connection is open
VendorOpensStream ==
    /\ pc = "await_stream"
    /\ \E generation \in VendorGenerations :
          vendor_stream' = [conn |-> "open", delivered |-> << >>,
                            chunks |-> generation]
    /\ pc' = "streaming"
    /\ UNCHANGED <<settings, ctor_fails, resolutions, inflight, providers, args, locals, vendor_calls, result, fragments, vendor_error>>
    /\ UNCHANGED tool_vars

\* the vendor delivers the next chunk to the adapter's "async for"; the adapter
\* yields it through LLMManager.stream_response to the consumer, or skips it
VendorChunk ==
    /\ pc = "streaming"
    /\ vendor_stream.chunks # << >>
    /\ LET chunk == Head(vendor_stream.chunks)
           client == vendor_calls[Len(vendor_calls)].client
           yields == IF client = "openai" THEN OpenAIYields(chunk)
                     ELSE AnthropicYields(chunk)
       IN /\ vendor_stream' = [vendor_stream EXCEPT
                                  !.delivered = Append(@, chunk),
                                  !.chunks = Tail(@)]
          /\ IF yields
             THEN fragments' = Append(fragments, chunk) /\ pc' = "yielded"
             ELSE UNCHANGED fragments /\ pc' = "streaming"
    /\ UNCHANGED <<settings, ctor_fails, resolutions, inflight, providers, args, locals, vendor_calls, result, vendor_error>>
    /\ UNCHANGED tool_vars

\* the consumer asks for the next fragment: the generators resume after yield
ResumeStream ==
    /\ pc = "yielded"
    /\ pc' = "streaming"
    /\ UNCHANGED <<settings, ctor_fails, resolutions, inflight, providers, args, locals, vendor_calls, result, vendor_stream, fragments, vendor_error>>
    /\ UNCHANGED tool_vars

\* the vendor stream ends: both generators finish and the consumer's loop ends
StreamEnds ==
    /\ pc = "streaming"
    /\ vendor_stream.chunks = << >>
    /\ vendor_stream' = [vendor_stream EXCEPT !.conn = "closed"]
    /\ result' = [kind |-> "exhausted"]
    /\ pc' = "done"
    /\ UNCHANGED <<settings, ctor_fails, resolutions, inflight, providers, args, locals, vendor_calls, fragments, vendor_error>>
    /\ UNCHANGED tool_vars

\* the streaming call, or the next chunk, raises: the adapter's except clause
\* runs and the exception reaches the consumer.  The call is refused for any of
\* the vendor's reasons; an open stream breaks with the connection
VendorStreamRaises ==
    /\ pc \in {"await_stream", "streaming"}
    /\ LET client == vendor_calls[Len(vendor_calls)].client
       IN \E e \in IF pc = "await_stream" THEN VendorErrors ELSE StreamBreaks :
             /\ vendor_error' = e
             /\ result' = [kind |-> "error",
                           error |-> IF client = "openai" THEN OpenAIStreamExcept(e)
                                     ELSE AnthropicStreamExcept(e)]
    /\ vendor_stream' = [vendor_stream EXCEPT
                            !.conn = IF @ = "open" THEN "closed" ELSE @,
                            !.chunks = << >>]
    /\ pc' = "done"
    /\ UNCHANGED <<settings, ctor_fails, resolutions, inflight, providers, args, locals, vendor_calls, fragments>>
    /\ UNCHANGED tool_vars

\* the consumer stops after a fragment and lets the generator go (it leaves its
\* loop, or calls aclose() on the generator chat_completion gave it).  The
\* generator of LLMManager.stream_response is suspended at its yield inside
\* "async for chunk in provider.stream_response(...)", which does not close the
\* adapter's generator: no statement of the adapter runs, and the chunks still
\* to come are never asked for
Abandon ==
    /\ pc = "yielded"
    /\ pc' = "abandoned"
    /\ result' = [kind |-> "abandoned"]
    /\ vendor_stream' = [vendor_stream EXCEPT !.chunks = << >>]
    /\ UNCHANGED <<settings, ctor_fails, resolutions, inflight, providers, args, locals, vendor_calls, fragments, vendor_error>>
    /\ UNCHANGED tool_vars

\* what the runtime's finalizer leaves of the connection once it has thrown
\* GeneratorExit into the adapter's generator: AnthropicProvider yields inside
\* "async with self.client.messages.stream(...)", whose exit closes the stream;
\* OpenAIProvider yields inside a bare "async for chunk in stream" and never
\* closes 'stream', so its connection closes or not with the vendor library
FinalizedConnections(client) ==
    IF client = "anthropic" THEN {"closed"} ELSE {"open", "closed"}

\* the runtime collects the abandoned adapter generator, if it ever does
Finalize ==
    /\ pc = "abandoned"
    /\ \E conn \in FinalizedConnections(vendor_calls[Len(vendor_calls)].client) :
          vendor_stream' = [vendor_stream EXCEPT !.conn = conn]
    /\ pc' = "finalized"
    /\ UNCHANGED <<settings, ctor_fails, resolutions, inflight, providers, args, locals, vendor_calls, result, fragments, vendor_error>>
    /\ UNCHANGED tool_vars

\* an MCP client calls the tool chat_with_llm: call_tool dispatches to
\* _chat_with_llm, which refuses a missing or empty message and otherwise
\* awaits chat_completion; call_tool turns the exception into an error result
CallChatTool ==
    /\ pc = "idle"
    /\ \E message \in ToolMessages, provider \in ProviderArgs, model \in ModelArgs,
          system_prompt \in SystemPrompts, user_id \in UserIds :
          /\ tool' = [name |-> "chat_with_llm", message |-> message,
                      provider |-> provider, model |-> model,
                      system_prompt |-> system_prompt, user_id |-> user_id]
          /\ IF ~Truthy(message)
             THEN /\ tool_result' = ToolError("chat_with_llm", ValueError(MessageRequired))
                  /\ pc' = "tool_done"
                  /\ UNCHANGED <<args, locals, vendor_calls, result>>
             ELSE /\ args' = [op |-> "chat_completion", user_message |-> message,
                              provider_name |-> provider, model |-> model,
                              conversation_history |-> NoList,
                              system_prompt |-> system_prompt, stream |-> FALSE]
                  /\ chat_completion(message, provider, model, NoList,
                                     system_prompt, FALSE)
                  /\ UNCHANGED tool_result
    /\ UNCHANGED <<settings, ctor_fails, resolutions, inflight, providers, vendor_stream, fragments, vendor_error, usage_rows>>

\* a variant in which a failure to log the usage leaves _log_llm_usage and
\* reaches call_tool
ToolReturns_LogFailureRaises ==
    /\ pc = "done"
    /\ tool # NoTool
    /\ IF result.kind = "value"
       THEN IF Truthy(tool.user_id)
            THEN \E committed \in BOOLEAN :
                    /\ usage_rows' = _log_llm_usage(tool.user_id, result.value, committed)
                    /\ tool_result' =
                          IF committed
                          THEN [isError |-> FALSE, text |-> result.value.content]
                          ELSE ToolError(tool.name, [cls |-> "OperationalError",
                                                     msg |-> "database is locked"])
            ELSE /\ tool_result' = [isError |-> FALSE, text |-> result.value.content]
                 /\ UNCHANGED usage_rows
       ELSE /\ tool_result' = ToolError(tool.name, result.error)
            /\ UNCHANGED usage_rows
    /\ pc' = "tool_done"
    /\ UNCHANGED <<settings, ctor_fails, resolutions, inflight, providers, args, locals, vendor_calls, result, vendor_stream, fragments, vendor_error, tool>>

\* chat_completion has returned into _chat_with_llm or raised through it: the
\* usage is logged when a user_id came with the call, and the tool result built
ToolReturns ==
    /\ pc = "done"
    /\ tool # NoTool
    /\ IF result.kind = "value"
       THEN /\ tool_result' = [isError |-> FALSE, text |-> result.value.content]
            /\ IF Truthy(tool.user_id)
               THEN \E committed \in BOOLEAN :
                       usage_rows' = _log_llm_usage(tool.user_id, result.value, committed)
               ELSE UNCHANGED usage_rows
       ELSE /\ tool_result' = ToolError(tool.name, result.error)
            /\ UNCHANGED usage_rows
    /\ pc' = "tool_done"
    /\ UNCHANGED <<settings, ctor_fails, resolutions, inflight, providers, args, locals, vendor_calls, result, vendor_stream, fragments, vendor_error, tool>>

\* an MCP client calls one of the other tools, or a tool that does not exist:
\* the tool returns its result or raises, an unknown name raises in call_tool
\* itself, and call_tool's except clause turns what was raised into a result
CallTool ==
    /\ pc = "idle"
    /\ \E name \in ToolNameArgs :
          \E raised \in IF name \in ToolNames THEN ToolFailures(name) \cup {NoError}
                         ELSE {UnknownTool(name)} :
             /\ tool' = [name |-> name, raised |-> raised]
             /\ tool_result' = IF raised = NoError
                               THEN [isError |-> FALSE, text |-> name]
                               ELSE ToolError(name, raised)
    /\ pc' = "tool_done"
    /\ UNCHANGED <<settings, ctor_fails, resolutions, inflight, providers, args, locals, vendor_calls, result, vendor_stream, fragments, vendor_error, usage_rows>>

\* a synchronous read of the manager returns its value to the caller
Return(call, value) ==
    /\ args' = call
    /\ result' = [kind |-> "value", value |-> value]
    /\ pc' = "done"
    /\ UNCHANGED <<settings, ctor_fails, resolutions, inflight, providers, locals, vendor_calls, vendor_stream, fragments, vendor_error>>
    /\ UNCHANGED tool_vars

\* a caller asks llm_manager.get_available_providers()
CallGetAvailableProviders ==
    /\ pc = "idle"
    /\ Return([op |-> "get_available_providers"], get_available_providers)

\* a caller asks llm_manager.get_provider(provider_name)
CallGetProvider ==
    /\ pc = "idle"
    /\ \E provider_name \in ProviderArgs :
          Return([op |-> "get_provider", provider_name |-> provider_name],
                 get_provider(provider_name))

\* a caller asks llm_manager.get_available_models(provider_name)
CallGetAvailableModels ==
    /\ pc = "idle"
    /\ \E provider_name \in ProviderArgs :
          Return([op |-> "get_available_models", provider_name |-> provider_name],
                 get_available_models(provider_name))

\* a caller asks llm_manager.get_default_provider()
CallGetDefaultProvider ==
    /\ pc = "idle"
    /\ Return([op |-> "get_default_provider"], get_default_provider)

\* a caller asks llm_manager.get_recommended_model(provider_name, task_type)
CallGetRecommendedModel ==
    /\ pc = "idle"
    /\ \E provider_name \in ProviderArgs, task_type \in TaskTypes :
          Return([op |-> "get_recommended_model", provider_name |-> provider_name,
                  task_type |-> task_type],
                 get_recommended_model(provider_name, task_type))

Next ==
    \/ Boot
    \/ CallGetAvailableProviders
    \/ CallGetProvider
    \/ CallGetAvailableModels
    \/ CallGetDefaultProvider
    \/ CallGetRecommendedModel
    \/ CallChatCompletion
    \/ CallChatTool
    \/ ToolReturns
    \/ CallTool
    \/ VendorReturns
    \/ VendorRaises
    \/ StartStream
    \/ VendorOpensStream
    \/ VendorChunk
    \/ ResumeStream
    \/ StreamEnds
    \/ VendorStreamRaises
    \/ Abandon
    \/ Finalize
    \/ Finish

Spec == Init /\ [][Next]_vars

\* a caller awaits llm_manager.chat_completion(...) and passes neither provider
\* nor model; what the call resolves them to is kept for the calls that follow
CallWithoutProviderAndModel ==
    /\ pc = "idle"
    /\ Len(resolutions) < MaxRuns
    /\ \E user_message \in UserMessages, conversation_history \in Histories,
          system_prompt \in SystemPrompts, st \in BOOLEAN :
          /\ args' = [op |-> "chat_completion", user_message |-> user_message,
                      provider_name |-> None, model |-> None,
                      conversation_history |-> conversation_history,
                      system_prompt |-> system_prompt, stream |-> st]
          /\ chat_completion(user_message, None, None,
                             conversation_history, system_prompt, st)
    /\ resolutions' = Append(resolutions, [provider_name |-> locals'.provider_name,
                                           model |-> locals'.model])
    /\ UNCHANGED <<settings, ctor_fails, inflight, providers, vendor_stream, fragments, vendor_error>>
    /\ UNCHANGED tool_vars

\* the runs of chat_completion without provider and model, one after another on
\* the registry that initialize_providers built
NextRuns ==
    \/ Boot
    \/ CallWithoutProviderAndModel
    \/ VendorReturns
    \/ VendorRaises
    \/ StartStream
    \/ VendorOpensStream
    \/ VendorChunk
    \/ ResumeStream
    \/ StreamEnds
    \/ VendorStreamRaises
    \/ Abandon
    \/ Finalize
    \/ Finish

SpecRuns == Init /\ [][NextRuns]_vars

----------------------------------------------------------------------------
(* Calls of chat_completion that are in flight together: each coroutine has   *)
(* its parameters and local variables in a frame of its own; the manager, its *)
(* registry and the adapters are shared                                       *)

\* what the concurrent callers pass; the user message names the caller
ConcurrentProviders == {"openai", "anthropic"}
ConcurrentModels == {None, "my-model"}
ConcurrentPrompts == {None, "S"}
UserMessageOf(r) == "U" \o ToString(r)

\* chat_completion and generate_response down to the adapter's await of the
\* vendor call, on the frame of one caller
FrameAfterCall(a) ==
    LET p == SelectProvider(a.provider_name)
        failed(l, msg) == [NoRequest EXCEPT !.pc = "done", !.args = a, !.locals = l,
                              !.result = [kind |-> "error", error |-> ValueError(msg)]]
        untouched == [NoLocals EXCEPT !.conversation_history = a.conversation_history]
    IN IF ~Truthy(p) THEN failed(untouched, NoProvidersMessage)
       ELSE LET m == SelectModel(p, a.model)
            IN IF ~Truthy(m)
               THEN failed([untouched EXCEPT !.provider_name = p], NoModelsMessage(p))
               ELSE LET messages == BuildMessages(a.user_message, a.conversation_history,
                                                  a.system_prompt)
                        l == [provider_name |-> p, model |-> m, messages |-> messages,
                              conversation_history |->
                                  CallerHistoryAfter(a.user_message,
                                                     a.conversation_history,
                                                     a.system_prompt)]
                        provider == get_provider(p)
                    IN IF provider = None THEN failed(l, NotAvailableMessage(p))
                       ELSE [NoRequest EXCEPT
                                !.pc = "await_vendor", !.args = a, !.locals = l,
                                !.vendor_call =
                                    IF provider = "OpenAIProvider"
                                    THEN OpenAICreate(messages, m, FALSE)
                                    ELSE AnthropicCreate(messages, m)]

\* what the vendor answers to one of the concurrent requests
ConcurrentResponses(request) ==
    IF request.client = "openai"
    THEN { x \in OpenAIResponses(request) :
             x.usage = [prompt_tokens |-> 0, completion_tokens |-> 0, total_tokens |-> 0] }
    ELSE { x \in AnthropicResponses(request) :
             x.usage = [input_tokens |-> 0, output_tokens |-> 0] }

\* what fails a call while others are in flight: the vendor's rate limit
ConcurrentErrors == { e \in VendorErrors : e.cls = "RateLimitError" }

\* a caller awaits llm_manager.chat_completion(...) while others are in flight
ConcurrentCall ==
    /\ pc = "idle"
    /\ \E r \in Requests, provider_name \in ConcurrentProviders,
          model \in ConcurrentModels, system_prompt \in ConcurrentPrompts :
          /\ inflight[r].pc = "idle"
          /\ LET frame == FrameAfterCall(
                            [op |-> "chat_completion", user_message |-> UserMessageOf(r),
                             provider_name |-> provider_name, model |-> model,
                             conversation_history |-> NoList,
                             system_prompt |-> system_prompt, stream |-> FALSE])
             IN /\ inflight' = [inflight EXCEPT ![r] = frame]
                /\ vendor_calls' = IF frame.pc = "await_vendor"
                                   THEN Append(vendor_calls, frame.vendor_call)
                                   ELSE vendor_calls
    /\ UNCHANGED <<settings, ctor_fails, resolutions, providers, pc, args, locals, result, vendor_stream, fragments, vendor_error>>
    /\ UNCHANGED tool_vars

\* the vendor answers one of the awaited calls: its coroutine resumes, builds
\* the dict from the response and returns it to its caller
ConcurrentReturns ==
    /\ \E r \in Requests :
          /\ inflight[r].pc = "await_vendor"
          /\ \E response \in ConcurrentResponses(inflight[r].vendor_call) :
                inflight' = [inflight EXCEPT
                    ![r].pc = "done",
                    ![r].reply = [kind |-> "response", response |-> response],
                    ![r].result =
                        [kind |-> "value",
                         value |-> IF inflight[r].vendor_call.client = "openai"
                                   THEN OpenAIResult(response)
                                   ELSE AnthropicResult(response)]]
    /\ UNCHANGED <<settings, ctor_fails, resolutions, providers, pc, args, locals, vendor_calls, result, vendor_stream, fragments, vendor_error>>
    /\ UNCHANGED tool_vars

\* one of the awaited calls raises into its coroutine, and through it
ConcurrentRaises ==
    /\ \E r \in Requests, e \in ConcurrentErrors :
          /\ inflight[r].pc = "await_vendor"
          /\ inflight' = [inflight EXCEPT
                ![r].pc = "done",
                ![r].reply = [kind |-> "raised", error |-> e],
                ![r].result =
                    [kind |-> "error",
                     error |-> IF inflight[r].vendor_call.client = "openai"
                               THEN OpenAIGenerateExcept(e)
                               ELSE AnthropicGenerateExcept(e)]]
    /\ UNCHANGED <<settings, ctor_fails, resolutions, providers, pc, args, locals, vendor_calls, result, vendor_stream, fragments, vendor_error>>
    /\ UNCHANGED tool_vars

NextConcurrent ==
    \/ Boot
    \/ ConcurrentCall
    \/ ConcurrentReturns
    \/ ConcurrentRaises

SpecConcurrent == Init /\ [][NextConcurrent]_vars

----------------------------------------------------------------------------
(* The manager's methods as functions of the registry.  get_recommended_model
   and chat_completion read self.providers and ask the adapter found there for
   its models; they have branches for a name outside the recommendations table
   and for an empty model list, which neither vendor adapter reaches.  Here the
   registry is any dict of up to MaxEntries adapters of the BaseLLMProvider
   interface, the two vendors' among them. *)

MaxEntries == 2

RegistryNames == {"openai", "anthropic", "local"}
AdapterClasses == {"OpenAIProvider", "AnthropicProvider", "StubProvider", "BareProvider"}

\* the dicts of name to adapter, as their items in insertion order
Registries ==
    { r \in SeqsUpTo([name : RegistryNames, adapter : AdapterClasses], MaxEntries) :
         \A i, j \in 1 .. Len(r) : i # j => r[i].name # r[j].name }

InitRegistries ==
    /\ settings = [openai_api_key |-> None, anthropic_api_key |-> None]
    /\ ctor_fails = {}
    /\ providers \in Registries
    /\ resolutions = << >>
    /\ inflight = [r \in Requests |-> NoRequest]
    /\ pc = "idle"
    /\ args = NoArgs
    /\ locals = NoLocals
    /\ vendor_calls = << >>
    /\ result = Pending
    /\ vendor_stream = NoStream
    /\ fragments = << >>
    /\ vendor_error = NoError
    /\ tool = NoTool
    /\ tool_result = Pending
    /\ usage_rows = << >>

\* get_recommended_model(provider_name, task_type) on the registry at hand
RecommendOnRegistry ==
    /\ pc = "idle"
    /\ \E provider_name \in RegistryNames, task_type \in TaskTypes :
          Return([op |-> "get_recommended_model", provider_name |-> provider_name,
                  task_type |-> task_type],
                 get_recommended_model(provider_name, task_type))

\* chat_completion without a model on the registry at hand
ChatOnRegistry ==
    /\ pc = "idle"
    /\ \E provider_name \in RegistryNames \cup {None}, st \in BOOLEAN :
          /\ args' = [op |-> "chat_completion", user_message |-> "U",
                      provider_name |-> provider_name, model |-> None,
                      conversation_history |-> NoList,
                      system_prompt |-> None, stream |-> st]
          /\ chat_completion("U", provider_name, None, NoList, None, st)
    /\ UNCHANGED <<settings, ctor_fails, resolutions, inflight, providers, vendor_stream, fragments, vendor_error>>
    /\ UNCHANGED tool_vars

NextRegistries ==
    \/ RecommendOnRegistry
    \/ ChatOnRegistry

SpecRegistries == InitRegistries /\ [][NextRegistries]_vars

----------------------------------------------------------------------------
(* A consumer that takes the generator of a streaming call to its end and asks
   it again afterwards. *)

\* a caller awaits llm_manager.chat_completion(..., stream=True)
CallStream ==
    /\ pc = "idle"
    /\ \E provider_name \in ProviderArgs :
          /\ args' = [op |-> "chat_completion", user_message |-> "U",
                      provider_name |-> provider_name, model |-> "my-model",
                      conversation_history |-> NoList,
                      system_prompt |-> None, stream |-> TRUE]
          /\ chat_completion("U", provider_name, "my-model", NoList, None, TRUE)
    /\ UNCHANGED <<settings, ctor_fails, resolutions, inflight, providers, vendor_stream, fragments, vendor_error>>
    /\ UNCHANGED tool_vars

IsStream == args.op = "chat_completion" /\ args.stream

\* the generator chat_completion returned: it exists once the call got past
\* its checks, and it is finished once it has returned or raised
HasGenerator == IsStream /\ Truthy(locals.model)
GeneratorFinished ==
    HasGenerator /\ pc = "done" /\ result.kind \in {"exhausted", "error", "stopped"}

\* a variant in which asking a finished generator runs its body anew
AskAgain_Restarts ==
    /\ GeneratorFinished
    /\ result.kind # "stopped"
    /\ pc' = "generator"
    /\ result' = [kind |-> "generator"]
    /\ UNCHANGED <<settings, ctor_fails, resolutions, inflight, providers, args, locals, vendor_calls, vendor_stream, fragments, vendor_error>>
    /\ UNCHANGED tool_vars

\* the consumer asks the finished generator for another fragment: an async
\* generator that has returned or raised runs no statement of
\* LLMManager.stream_response or of the adapter again and raises
\* StopAsyncIteration
AskAgain ==
    /\ GeneratorFinished
    /\ result.kind # "stopped"
    /\ pc' = "done"
    /\ result' = [kind |-> "stopped"]
    /\ UNCHANGED <<settings, ctor_fails, resolutions, inflight, providers, args, locals, vendor_calls, vendor_stream, fragments, vendor_error>>
    /\ UNCHANGED tool_vars

NextStream ==
    \/ Boot
    \/ CallStream
    \/ StartStream
    \/ VendorOpensStream
    \/ VendorChunk
    \/ ResumeStream
    \/ StreamEnds
    \/ VendorStreamRaises
    \/ AskAgain

\* the vendor answers the streaming call and delivers what it has, the event
\* loop resumes the generators, and the consumer's "async for" keeps asking
SpecStream ==
    /\ Init
    /\ [][NextStream]_vars
    /\ WF_vars(VendorOpensStream)
    /\ WF_vars(VendorChunk)
    /\ WF_vars(ResumeStream)
    /\ WF_vars(StreamEnds)

----------------------------------------------------------------------------
(* Vocabulary of the claims *)

IsChat == args.op = "chat_completion"

\* the message list the call in flight handed to the adapter
Handed == locals.messages

SystemEntries(messages) == SelectSeq(messages, LAMBDA m : m.role = "system")
NonSystemEntries(messages) == SelectSeq(messages, LAMBDA m : m.role # "system")
LastSystemContent(messages) ==
    SystemEntries(messages)[Len(SystemEntries(messages))].content

RECURSIVE JoinContents(_)
JoinContents(entries) ==
    IF Len(entries) = 1 THEN entries[1].content
    ELSE entries[1].content \o "\n" \o JoinContents(Tail(entries))

AnthropicCalls == { i \in DOMAIN vendor_calls : vendor_calls[i].client = "anthropic" }

\* the error taxonomy of the specification, as the code's exceptions
NoProviderAvailable == ValueError(NoProvidersMessage)
IsUnknownProvider(e) ==
    \E p \in ProviderArgs : e = ValueError(NotAvailableMessage(p))
IsNoModelAvailable(e) ==
    \E p \in ProviderArgs \cup RegistryNames : e = ValueError(NoModelsMessage(p))

\* the call in flight is over for its caller
Returned == pc \in {"done", "tool_done"}
Failed == Returned /\ result.kind = "error"
VendorFailed == Returned /\ vendor_error # NoError

----------------------------------------------------------------------------
(* Claims *)

\* C1: whatever token counts the vendor reply carries, the dict generate
\* returns has total_tokens = prompt_tokens + completion_tokens.  Stated as
\* claimed; the OpenAI adapter copies the vendor's total_tokens.
C1_TotalIsSum ==
    (IsChat /\ Returned /\ result.kind = "value") =>
        result.value.usage.total_tokens =
            result.value.usage.prompt_tokens + result.value.usage.completion_tokens

C3_SystemConcatenated ==
    \A i \in AnthropicCalls :
        Len(SystemEntries(Handed)) >= 2 =>
            vendor_calls[i].system = Given(JoinContents(SystemEntries(Handed)))

\* C4: when the input holds no system entry, every Anthropic vendor call
\* (create and stream) omits the system field and sends no empty string.
C4_NoSystemOmitted ==
    \A i \in AnthropicCalls :
        SystemEntries(Handed) = << >> =>
            /\ vendor_calls[i].system = NOT_GIVEN
            /\ ~ vendor_calls[i].system.given

\* C4 witness: a streaming Anthropic call whose input has no system entry
C4_Witness ==
    /\ pc = "await_stream"
    /\ vendor_calls[1].client = "anthropic"
    /\ SystemEntries(Handed) = << >>
    /\ Len(Handed) = 3

\* the history argument as a list: an absent one adds nothing
HistoryItems == args.conversation_history.items

\* the number of system prompt entries chat_completion puts first
PromptEntries == IF Truthy(args.system_prompt) THEN 1 ELSE 0

\* C5: the list chat_completion hands on is the system prompt entry (when a
\* system prompt is given and not empty), then the history entries in the given
\* order, then one user entry with the new message, and nothing else; the
\* OpenAI adapter sends that list as it is.
C5_AssemblyOrder ==
    (IsChat /\ Handed # << >>) =>
        /\ Len(Handed) = PromptEntries + Len(HistoryItems) + 1
        /\ PromptEntries = 1 => Handed[1] = Message("system", args.system_prompt)
        /\ \A i \in 1 .. Len(HistoryItems) : Handed[PromptEntries + i] = HistoryItems[i]
        /\ Handed[Len(Handed)] = Message("user", args.user_message)
        /\ \A i \in DOMAIN vendor_calls :
              vendor_calls[i].client = "openai" => vendor_calls[i].messages = Handed

\* C5 witness: a system prompt, two different history entries and the user turn
C5_Witness ==
    /\ IsChat
    /\ pc = "await_vendor"
    /\ vendor_calls[1].client = "openai"
    /\ Handed = << Message("system", "S"), Message("user", "B"),
                   Message("assistant", "C"), Message("user", "U") >>

\* C6: chat_completion with an explicit provider name that is not registered
\* ends with the UnknownProvider error and no vendor call, the model given or
\* not.  Stated as claimed, for the calls that do not stream; with the model
\* omitted the code raises the "No models available" error.
C6_UnknownProvider ==
    (IsChat /\ ~ args.stream /\ Truthy(args.provider_name)
        /\ get_provider(args.provider_name) = None) =>
        /\ Failed
        /\ IsUnknownProvider(result.error)
        /\ ~ IsNoModelAvailable(result.error)
        /\ result.error # NoProviderAvailable
        /\ vendor_calls = << >>

\* C7: chat_completion with an empty registry and no provider named ends, with
\* stream or without, in the "No LLM providers are available" error, raised by
\* the call itself, and no vendor call is made.
C7_NoProviderAvailable ==
    (IsChat /\ providers = << >> /\ ~ Truthy(args.provider_name)) =>
        /\ Failed
        /\ result.error = NoProviderAvailable
        /\ ~ IsUnknownProvider(result.error)
        /\ ~ IsNoModelAvailable(result.error)
        /\ vendor_calls = << >>

\* C7 witness: such a call with stream=True has failed
C7_Witness ==
    /\ IsChat /\ args.stream /\ args.provider_name = None
    /\ providers = << >>
    /\ Failed

\* C8: no vendor call is made for an empty user message: chat_completion
\* rejects it.  Stated as claimed; chat_completion has no such check, only the
\* tool chat_with_llm refuses an empty message before it calls chat_completion.
C8_EmptyInputRejected ==
    (IsChat /\ args.user_message = "") =>
        vendor_calls = << >>

\* C9: when the vendor call fails, exactly one vendor call was made, on the
\* adapter the call resolved to, and the caller holds the vendor's exception as
\* it was raised.
C9_NoRetryNoFallback ==
    VendorFailed =>
        /\ Len(vendor_calls) = 1
        /\ vendor_calls[1].client = locals.provider_name
        /\ get_provider(locals.provider_name) # None
        /\ result = [kind |-> "error", error |-> vendor_error]

\* C9 witness: a non-streaming call failed at the vendor while another provider
\* was registered
C9_Witness ==
    /\ VendorFailed /\ IsChat /\ ~ args.stream
    /\ Len(providers) = 2
    /\ vendor_error.cls = "RateLimitError"

\* C10: the error a failed vendor call of generate gives the caller is an
\* UpstreamProviderError with the adapter's vendor name and the underlying
\* message.  Stated as claimed; the adapters re-raise the vendor's exception.
C10_UpstreamProviderError ==
    (VendorFailed /\ IsChat /\ ~ args.stream) =>
        /\ result.kind = "error"
        /\ result.error.cls = "UpstreamProviderError"
        /\ result.error.msg = vendor_error.msg

\* the text generate_response returns when the vendor's reply holds the whole
\* of a generation
GenerateText(client, generation) ==
    IF client = "openai"
    THEN OpenAIResult([content |-> VendorText(generation), model |-> "",
                       usage |-> [prompt_tokens |-> 0, completion_tokens |-> 0,
                                  total_tokens |-> 0]]).content
    ELSE AnthropicResult([text |-> VendorText(generation), model |-> "",
                          usage |-> [input_tokens |-> 0, output_tokens |-> 0]]).content

\* the consumer has drawn the stream to its end
Exhausted == pc = "done" /\ result = [kind |-> "exhausted"]

\* C11: when a stream has been drawn to its end, the vendor has delivered its
\* whole generation, and the fragments the consumer received through
\* LLMManager.stream_response, concatenated, are the text generate_response
\* returns for that generation; so for both adapters, and with empty chunks.
C11_StreamEqualsGenerate ==
    Exhausted =>
        /\ vendor_stream.chunks = << >>
        /\ Concat(fragments) =
              GenerateText(vendor_calls[1].client, vendor_stream.delivered)

\* C11 witness: an OpenAI stream of an empty chunk and "b", drawn to its end
C11_Witness ==
    /\ Exhausted
    /\ vendor_calls[1].client = "openai"
    /\ vendor_stream.delivered = <<"", "b">>
    /\ fragments = <<"b">>

\* C12: a stream the consumer abandoned after a fragment has its vendor
\* connection closed: no state holds an abandoned stream with an open
\* connection.  Stated as claimed; neither generator closes the vendor stream
\* when the consumer stops, the connection is left to the runtime's finalizer.
C12_AbandonCloses ==
    pc \in {"abandoned", "finalized"} => vendor_stream.conn = "closed"

\* a call of get_recommended_model has returned, for a registered provider that
\* has a row in the recommendations table
Recommended ==
    /\ args.op = "get_recommended_model"
    /\ pc = "done"
    /\ args.provider_name \in DOMAIN recommendations
    /\ get_provider(args.provider_name) # None

\* the task types of the table
KnownTaskTypes == {"general", "complex", "fast", "creative"}

\* C13: for a registered provider with a row in the table, a task type outside
\* the four known ones gets the provider's "general" entry
\* (get_recommended_model("openai", "unknown-task") = "gpt-3.5-turbo").  Stated
\* as claimed; the code's default for a missing key is models[0].
C13_UnknownTaskIsGeneral ==
    (Recommended /\ args.task_type \notin KnownTaskTypes) =>
        result.value = recommendations[args.provider_name]["general"]

\* the "general" entries the specification names
GeneralEntry(provider_name) ==
    IF provider_name = "openai" THEN "gpt-3.5-turbo" ELSE "claude-3-sonnet-20240229"

\* C14: for a registered provider and a task type of the table,
\* get_recommended_model returns the table's entry, "gpt-4" for
\* ("openai", "complex") and "claude-3-haiku-20240307" for ("anthropic", "fast");
\* and chat_completion called without a model, on a registered provider, goes on
\* with that provider's "general" entry.
C14_TableEntries ==
    /\ (Recommended /\ args.task_type \in KnownTaskTypes) =>
          /\ result.value = recommendations[args.provider_name][args.task_type]
          /\ (args.provider_name = "openai" /\ args.task_type = "complex") =>
                result.value = "gpt-4"
          /\ (args.provider_name = "anthropic" /\ args.task_type = "fast") =>
                result.value = "claude-3-haiku-20240307"
          /\ args.task_type = "general" =>
                result.value = GeneralEntry(args.provider_name)
    /\ (IsChat /\ ~ Truthy(args.model) /\ get_provider(locals.provider_name) # None) =>
          locals.model = GeneralEntry(locals.provider_name)

\* C14 witness: chat_completion without provider and model, with Anthropic
\* alone registered, has called the vendor with claude-3-sonnet-20240229
C14_Witness ==
    /\ IsChat /\ args.model = None /\ args.provider_name = None
    /\ pc = "await_vendor"
    /\ vendor_calls[1].client = "anthropic"
    /\ vendor_calls[1].model = "claude-3-sonnet-20240229"

Credential(vendor) ==
    IF vendor = "openai" THEN settings.openai_api_key ELSE settings.anthropic_api_key

\* the adapter class of a vendor
AdapterOf(vendor) ==
    IF vendor = "openai" THEN "OpenAIProvider" ELSE "AnthropicProvider"

\* the names in the registry
RegisteredNames == { providers[i].name : i \in DOMAIN providers }

\* C16: once LLMManager() is constructed, the registry holds one entry, bound to
\* the vendor's adapter, for exactly the vendors whose credential is configured
\* and whose constructor did not raise, and nothing else; a constructor that
\* raises takes nothing from the other vendor, and the registry may be empty.
C16_RegistryAsConfigured ==
    pc # "boot" =>
        /\ RegisteredNames =
              { v \in VendorNames : Credential(v) # None /\ v \notin ctor_fails }
        /\ Len(providers) = Cardinality(RegisteredNames)
        /\ \A i \in DOMAIN providers : providers[i].adapter = AdapterOf(providers[i].name)

\* C16 witness: both credentials configured, the OpenAI constructor raised, and
\* the registry holds Anthropic alone
C16_Witness ==
    /\ pc = "idle"
    /\ Credential("openai") # None /\ Credential("anthropic") # None
    /\ ctor_fails = {"openai"}
    /\ providers = << [name |-> "anthropic", adapter |-> "AnthropicProvider"] >>

\* C17: chat_completion called with stream=True, a model, and a provider name
\* that is not registered raises its error itself: the caller never holds a
\* generator for such a call.  Stated as claimed; the check is in the body of
\* the async generator and runs when the first fragment is asked for.
C17_StreamErrorAtCall ==
    (IsChat /\ args.stream /\ Truthy(args.provider_name) /\ Truthy(args.model)
        /\ get_provider(args.provider_name) = None) =>
        /\ result.kind # "generator"
        /\ Failed

\* a call of get_default_provider has returned
DefaultAsked == args.op = "get_default_provider" /\ pc = "done"

\* C18 as claimed: get_default_provider returns the first name of the registry
\* in insertion order, and None exactly when the registry is empty; it returns
\* "openai" when both credentials are configured and "anthropic" when the
\* Anthropic credential alone is.
C18_DefaultByCredentials ==
    DefaultAsked =>
        /\ providers # << >> => result.value = providers[1].name
        /\ result.value = None <=> providers = << >>
        /\ (Credential("openai") # None /\ Credential("anthropic") # None) =>
              result.value = "openai"
        /\ (Credential("openai") = None /\ Credential("anthropic") # None) =>
              result.value = "anthropic"

\* C18 amended: the same, with the two examples read on the registry: "openai"
\* when both providers are registered, "anthropic" when Anthropic alone is.
C18_DefaultByRegistry ==
    DefaultAsked =>
        /\ providers # << >> => result.value = providers[1].name
        /\ result.value = None <=> providers = << >>
        /\ RegisteredNames = {"openai", "anthropic"} => result.value = "openai"
        /\ RegisteredNames = {"anthropic"} => result.value = "anthropic"

\* C18 witness: both providers registered, the default asked for is "openai"
C18_Witness ==
    /\ DefaultAsked
    /\ Len(providers) = 2
    /\ result.value = "openai"

\* C19: once LLMManager() is constructed, no step of any call (the reads of the
\* registry, get_recommended_model, chat_completion with its generate_response
\* or stream_response, the chat tool; returning, failing or abandoned) changes
\* the registry: its names, their order and the adapter of each stay as built.
C19_RegistryReadOnly ==
    [][pc # "boot" => providers' = providers]_vars

\* C19 witness: with both providers registered, a stream broke after a
\* fragment, and the registry is as initialize_providers built it
C19_Witness ==
    /\ pc = "done" /\ IsChat /\ args.stream
    /\ vendor_error \in StreamBreaks
    /\ fragments # << >>
    /\ providers = << [name |-> "openai", adapter |-> "OpenAIProvider"],
                      [name |-> "anthropic", adapter |-> "AnthropicProvider"] >>

\* C20: every fragment the consumer of a stream receives is a non-empty string,
\* and the fragments are the vendor's non-empty chunks in the vendor's order,
\* for both adapters and whatever chunks the vendor delivers.  Stated as
\* claimed; the Anthropic adapter yields every text of text_stream as it comes.
C20_FragmentsNonEmpty ==
    /\ \A i \in DOMAIN fragments : fragments[i] # ""
    /\ fragments = SelectSeq(vendor_stream.delivered, LAMBDA chunk : chunk # "")

\* the concurrent calls that are suspended at their vendor call
Suspended == { r \in Requests : inflight[r].pc = "await_vendor" }

\* the concurrent calls that have issued a vendor request
Issued == { r \in Requests : inflight[r].vendor_call # NoArgs }

\* C21: however the concurrent calls of chat_completion interleave, the vendor
\* request of each carries the provider and the model resolved from its own
\* arguments and the message list built from its own arguments, and each
\* caller holds the outcome of its own vendor call: the dict built from the
\* response to its request, with the provider and the model of that request,
\* or the exception raised into it; the registry stays as it was built.
C21_CallsAreIndependent ==
    \A r \in Issued :
        LET f == inflight[r]
            p == IF Truthy(f.args.provider_name) THEN f.args.provider_name
                 ELSE providers[1].name
            m == IF Truthy(f.args.model) THEN f.args.model ELSE GeneralEntry(p)
        IN /\ f.vendor_call.client = p
           /\ f.vendor_call.model = m
           /\ f.vendor_call.messages[Len(f.vendor_call.messages)] =
                 Message("user", UserMessageOf(r))
           /\ f.vendor_call.client = "openai" =>
                 f.vendor_call.messages =
                     BuildMessages(UserMessageOf(r), f.args.conversation_history,
                                   f.args.system_prompt)
           /\ f.vendor_call.client = "anthropic" =>
                 f.vendor_call.system =
                     IF Truthy(f.args.system_prompt) THEN Given(f.args.system_prompt)
                     ELSE NOT_GIVEN
           /\ f.result.kind = "value" =>
                 /\ f.reply.kind = "response"
                 /\ f.result.value.provider = p
                 /\ f.result.value.model = m
                 /\ f.result.value.content =
                       IF p = "openai" THEN f.reply.response.content
                       ELSE f.reply.response.text
           /\ f.result.kind = "error" =>
                 f.result.error = f.reply.error
           /\ providers = initialize_providers

\* C21 witness: two calls were suspended together on the OpenAI adapter with
\* different models; the second to call was answered first and holds its own
\* model, the first is still suspended
C21_Witness ==
    /\ Len(vendor_calls) = 2
    /\ vendor_calls[1] = inflight[1].vendor_call
    /\ vendor_calls[2] = inflight[2].vendor_call
    /\ inflight[1].vendor_call.client = "openai"
    /\ inflight[2].vendor_call.client = "openai"
    /\ inflight[1].vendor_call.model = "gpt-3.5-turbo"
    /\ inflight[2].result.kind = "value"
    /\ inflight[2].result.value.model = "my-model"
    /\ Suspended = {1}

\* C22: chat_completion called without a model, on a registered provider: when
\* the adapter's model list is empty the call fails with "No models available
\* for provider ..." and no vendor call has been made; when the list is not
\* empty the call does not fail with that error and goes on with a model.
C22_NoModelAvailable ==
    (IsChat /\ ~ Truthy(args.model) /\ get_provider(locals.provider_name) # None) =>
        IF AdapterModels(get_provider(locals.provider_name)) = << >>
        THEN /\ Failed
             /\ result.error = ValueError(NoModelsMessage(locals.provider_name))
             /\ vendor_calls = << >>
        ELSE /\ ~ (Failed /\ IsNoModelAvailable(result.error))
             /\ Truthy(locals.model)

\* C22 witness: chat_completion without a model on "local", registered with an
\* adapter whose list is empty, has failed before any vendor call
C22_Witness ==
    /\ IsChat /\ args.model = None /\ args.provider_name = "local"
    /\ get_provider("local") = "BareProvider"
    /\ Failed
    /\ IsNoModelAvailable(result.error)
    /\ vendor_calls = << >>

\* C23: for a registered provider without a row in the recommendations table and
\* with a model list, get_recommended_model returns the first model of the list
\* whatever the task type.
C23_FirstModelOutsideTable ==
    (/\ args.op = "get_recommended_model" /\ pc = "done"
     /\ get_provider(args.provider_name) # None
     /\ args.provider_name \notin DOMAIN recommendations
     /\ AdapterModels(get_provider(args.provider_name)) # << >>) =>
        result.value = AdapterModels(get_provider(args.provider_name))[1]

\* C23 witness: get_recommended_model("local", "complex") has returned the first
\* model of the adapter registered as "local"
C23_Witness ==
    /\ args.op = "get_recommended_model" /\ pc = "done"
    /\ args.provider_name = "local" /\ args.task_type = "complex"
    /\ get_provider("local") = "StubProvider"
    /\ result.value = "stub-large"

\* the consumer has asked for a fragment and the generators are running
Consuming == HasGenerator /\ pc \in {"await_stream", "streaming", "yielded"}

\* C24 (lazy): while chat_completion's generator has not been asked for its
\* first fragment, no vendor call has been made.
C24_Lazy == (HasGenerator /\ pc = "generator") => vendor_calls = << >>

\* C24 (non-restartable): a streaming call makes one vendor call at most, and a
\* finished generator stays finished, with the fragments and the vendor calls it
\* had when it finished.
C24_NonRestartable ==
    /\ [](HasGenerator => Len(vendor_calls) <= 1)
    /\ [][GeneratorFinished =>
             /\ GeneratorFinished'
             /\ fragments' = fragments
             /\ vendor_calls' = vendor_calls]_vars

\* C24 (finite): once the consumer has asked, the stream is exhausted or has
\* failed with the vendor's error after finitely many steps.
C24_Finite ==
    Consuming ~> (GeneratorFinished /\ (result.kind = "exhausted" \/ vendor_error # NoError))

\* C24: the generator of a streaming call is lazy, finite and non-restartable.
C24_LazyFiniteNonRestartable ==
    /\ []C24_Lazy
    /\ C24_NonRestartable
    /\ C24_Finite

\* C24 witness: the vendor's two chunks have reached the consumer, the stream
\* is exhausted, and the consumer has asked once more
C24_Witness ==
    /\ GeneratorFinished
    /\ result.kind = "stopped"
    /\ vendor_error = NoError
    /\ Len(fragments) = 2
    /\ Len(vendor_calls) = 1

\* C25: when the caller names both provider and model, chat_completion goes on
\* with exactly these: it does not fail for want of a provider or a model, and
\* every vendor call it makes goes to the named provider's client with the
\* caller's model string, whether or not the provider lists that model; a
\* non-streaming call on a registered provider has made that vendor call.
C25_ExplicitChoiceKept ==
    (IsChat /\ Truthy(args.provider_name) /\ Truthy(args.model)) =>
        /\ locals.provider_name = args.provider_name
        /\ locals.model = args.model
        /\ ~ (Failed /\ (result.error = NoProviderAvailable
                          \/ IsNoModelAvailable(result.error)))
        /\ \A i \in DOMAIN vendor_calls :
              /\ vendor_calls[i].client = args.provider_name
              /\ vendor_calls[i].model = args.model
        /\ (~ args.stream /\ get_provider(args.provider_name) # None) =>
              Len(vendor_calls) = 1

\* C25 witness: chat_completion("U", provider_name="anthropic", model="gpt-4")
\* has called Anthropic with "gpt-4", which is not in Anthropic's list
C25_Witness ==
    /\ IsChat /\ args.provider_name = "anthropic" /\ args.model = "gpt-4"
    /\ ~ InSeq("gpt-4", AnthropicModels)
    /\ pc = "await_vendor"
    /\ vendor_calls = << AnthropicCreate(locals.messages, "gpt-4") >>

\* the system field the last of these system entries decides, if there is one
SystemOfLast(entries) ==
    IF entries # << >> /\ entries[Len(entries)].content # ""
    THEN Given(entries[Len(entries)].content) ELSE NOT_GIVEN

\* C26: the system field of every Anthropic vendor call is the content of the
\* last system entry of the messages handed to the adapter; it is omitted
\* exactly when there is no system entry or the last one has empty content.  A
\* system entry of conversation_history comes after the one made of
\* system_prompt, so the last of the history's decides the field, whatever
\* system_prompt was; with none in the history, system_prompt decides.
C26_LastSystemEntryDecides ==
    IsChat =>
        \A i \in AnthropicCalls :
            LET entries == SystemEntries(Handed)
                inHistory == SystemEntries(HistoryItems)
            IN /\ vendor_calls[i].system.given =>
                     vendor_calls[i].system.value = LastSystemContent(Handed)
               /\ ~ vendor_calls[i].system.given <=>
                     (entries = << >> \/ LastSystemContent(Handed) = "")
               /\ inHistory # << >> =>
                     vendor_calls[i].system = SystemOfLast(inHistory)
               /\ inHistory = << >> =>
                     vendor_calls[i].system =
                         IF Truthy(args.system_prompt) THEN Given(args.system_prompt)
                         ELSE NOT_GIVEN

\* C26 witness: chat_completion with system_prompt "S" and a history whose last
\* system entry is empty has called Anthropic without a system field
C26_Witness ==
    /\ IsChat /\ args.system_prompt = "S"
    /\ HistoryItems = << Message("system", "A"), Message("system", "") >>
    /\ pc = "await_vendor"
    /\ vendor_calls[1].client = "anthropic"
    /\ vendor_calls[1].system = NOT_GIVEN

\* the adapters registered under this name: one at most
RegisteredAs(provider_name) ==
    { providers[i].adapter : i \in { j \in 1 .. Len(providers) :
                                       providers[j].name = provider_name } }

\* C27: get_recommended_model returns None exactly when the provider is not
\* registered or its adapter's model list is empty; otherwise it returns a
\* member of that adapter's model list.
C27_NoneOrListedModel ==
    (args.op = "get_recommended_model" /\ pc = "done") =>
        LET adapters == RegisteredAs(args.provider_name)
        IN /\ result.value = None <=>
                 (adapters = {} \/ \E a \in adapters : AdapterModels(a) = << >>)
           /\ result.value # None =>
                 \A a \in adapters : InSeq(result.value, AdapterModels(a))

\* C27 witness: get_recommended_model("openai", "fast") on a registry whose
\* "openai" adapter does not list the table's entry has returned that adapter's
\* first model
C27_Witness ==
    /\ args.op = "get_recommended_model" /\ pc = "done"
    /\ args.provider_name = "openai" /\ args.task_type = "fast"
    /\ RegisteredAs("openai") = {"StubProvider"}
    /\ result.value = "stub-large"

\* C28: on every path of chat_completion, returning or raising, before or after
\* the vendor call, the list the caller passed as conversation_history holds
\* the entries it held at the call, in the same order; the system prompt and the
\* user message are in the list handed to the adapter only.
C28_HistoryUntouched ==
    IsChat =>
        /\ locals.conversation_history = args.conversation_history
        /\ Handed # << >> =>
              /\ Handed[Len(Handed)] = Message("user", args.user_message)
              /\ Len(Handed) > Len(locals.conversation_history.items)

\* C28 witness: a call with a system prompt and a history of two entries has
\* failed at the vendor
C28_Witness ==
    /\ IsChat /\ VendorFailed
    /\ args.system_prompt = "S"
    /\ Len(HistoryItems) = 2
    /\ Len(Handed) = 4

\* the tool chat_with_llm has returned its result to call_tool's caller
ChatToolDone == pc = "tool_done" /\ tool.name = "chat_with_llm"

\* C29: a usage row is written by the chat tool only: after chat_completion
\* has returned a response and for a call that came with a user_id, and the row
\* holds that user_id and that response's provider, model and token counts.
\* Whether or not the row could be written, a call whose chat_completion
\* succeeded returns the response's content and no error.
C29_UsageAfterSuccess ==
    /\ usage_rows # << >> =>
          /\ ChatToolDone
          /\ result.kind = "value"
          /\ Truthy(tool.user_id)
          /\ usage_rows = << [user_id |-> tool.user_id,
                               provider |-> result.value.provider,
                               model |-> result.value.model,
                               tokens_input |-> result.value.usage.prompt_tokens,
                               tokens_output |-> result.value.usage.completion_tokens] >>
    /\ (ChatToolDone /\ result.kind = "value") =>
          tool_result = [isError |-> FALSE, text |-> result.value.content]
    /\ (ChatToolDone /\ result.kind # "value") => tool_result.isError

\* C29 witness: the chat tool was called with a user_id, chat_completion
\* succeeded, the usage row could not be written, and the tool has returned
\* the response
C29_Witness ==
    /\ ChatToolDone
    /\ tool.user_id = "1"
    /\ result.kind = "value"
    /\ usage_rows = << >>
    /\ tool_result = [isError |-> FALSE, text |-> result.value.content]

\* what was raised inside call_tool's try block for the call that is over, if
\* anything: by the chat tool (its own check or chat_completion's exception),
\* by another tool, or by the dispatch on an unknown name
RaisedInTool ==
    IF tool.name = "chat_with_llm"
    THEN IF ~ Truthy(tool.message) THEN ValueError(MessageRequired)
         ELSE IF result.kind = "error" THEN result.error ELSE NoError
    ELSE tool.raised

\* C30: every call of call_tool ends with a result and not with an exception;
\* for an unknown tool name, and whenever one of the four tools raised, the
\* result has isError set and its text is "Error executing tool '<name>': "
\* followed by the message of what was raised.
C30_CallToolNeverRaises ==
    pc = "tool_done" =>
        /\ DOMAIN tool_result = {"isError", "text"}
        /\ tool.name \notin ToolNames =>
              tool_result = [isError |-> TRUE,
                             text |-> "Error executing tool '" \o tool.name
                                      \o "': Unknown tool: " \o tool.name]
        /\ RaisedInTool # NoError =>
              tool_result = [isError |-> TRUE,
                             text |-> "Error executing tool '" \o tool.name
                                      \o "': " \o RaisedInTool.msg]
        /\ RaisedInTool = NoError => ~ tool_result.isError

\* C30 witness: sql_with_llm raised because the manager has no provider, and
\* the client holds the error result that names the tool and the message
C30_Witness ==
    /\ pc = "tool_done"
    /\ tool.name = "sql_with_llm"
    /\ tool.raised = ValueError("No LLM providers are available")
    /\ tool_result.isError
    /\ tool_result.text =
          "Error executing tool 'sql_with_llm': No LLM providers are available"

====
